---- MODULE Spec2Model ----
(***************************************************************************)
(* Model of the slip event store (stores/slipStore.ts), its storage        *)
(* service (services/storage.ts) and the AsyncStorage requests they issue. *)
(*                                                                         *)
(* JavaScript runs each synchronous stretch of a handler to completion, so *)
(* one action is one such stretch: the part of a store action up to its    *)
(* first await, or the continuation that runs when a storage request       *)
(* settles.  AsyncStorage serves its requests in the order they were       *)
(* issued, and any of them may fail.                                       *)
(*                                                                         *)
(* The derived views, useStreak (hooks/useStreak.ts) and useStats          *)
(* (hooks/useStats.ts) with the calendar utilities (utils/date.ts), are    *)
(* pure functions of the events, the daily limit, the clock and the time   *)
(* zone of the device: StreakSpec and StatsSpec draw these inputs in       *)
(* ViewInit and evaluate one view on them, and HomeSpec evaluates what one *)
(* render of the home screen shows (useToday, useStreak, QuickInsight).    *)
(*                                                                         *)
(* SettingsSpec is the settings store (stores/settingsStore.ts) with the   *)
(* limit stepper (components/settings/LimitSetting.tsx); of the settings   *)
(* only dailyLimit is kept.  MutatorSpec is the slip store without         *)
(* loadEvents, with an AsyncStorage that never fails.                      *)
(***************************************************************************)
EXTENDS Integers, Sequences, FiniteSets, TLC

\* ------------------------------------------------------------------ bounds
MaxRecords == 2      \* addSlip calls in one behaviour
MaxQueue   == 1      \* AsyncStorage requests in flight

\* --------------------------------------------------------------- constants
UNDO_WINDOW_MS == 5 * 60 * 1000

\* null of lastSlipId / lastSlipTime / a missing storage item.  Ids and clock
\* readings of the model are >= 1, so 0 is never a real value; the guard
\* `!lastSlipId || !lastSlipTime` treats 0 and null alike.
Null == 0

\* readings of the clock: two within the undo window of each other, and one
\* that is exactly the window after the second and 1 ms more after the first
Instants == {1, 2, UNDO_WINDOW_MS + 2}

VARIABLES
    events,          \* store: SlipEvent[]
    isLoading,       \* store: boolean
    lastSlipId,      \* store: string | null
    lastSlipTime,    \* store: number | null
    stEvents,        \* AsyncStorage item "slips-events"
    stLastSlipTime,  \* AsyncStorage item "slip-last-slip-time"
    queue,           \* AsyncStorage requests issued and not yet settled
    now,             \* Date.now(); in the derived views new Date(), as a Date
    nextId,          \* number of ids generateId has handed out
    call,            \* the last store operation that ran, and its result
    rejected,        \* the store actions whose promise has rejected
    lastRec,         \* the event of the most recent addSlip call
    undone,          \* an undoLastSlip has returned true since then
    limit,           \* settings.dailyLimit
    tz,              \* the device's offset from UTC, in ms
    streak,          \* what useStreak() returned
    stats,           \* what useStats(range) returned
    todayStatus,     \* what useToday() returned
    insight,         \* what QuickInsight computed
    settingsLoading, \* settings store: isLoading
    stSettings,      \* AsyncStorage item of the settings
    settingsQueue,   \* AsyncStorage requests of the settings store, not yet settled
    cap              \* how many AsyncStorage requests may be in flight at once

vars == << events, isLoading, lastSlipId, lastSlipTime, stEvents,
           stLastSlipTime, queue, now, nextId, call, rejected, lastRec,
           undone, limit, tz, streak, stats, todayStatus, insight,
           settingsLoading,
           stSettings, settingsQueue, cap >>

views    == << limit, tz, streak, stats >>
home     == << todayStatus, insight >>
settings == << settingsLoading, stSettings, settingsQueue >>
\* what no action of the slip store touches
outside  == << views, home, settings, cap >>
store   == << events, isLoading, lastSlipId, lastSlipTime >>
storage == << stEvents, stLastSlipTime >>

\* ----------------------------------------------------------------- helpers
IdsOf(evs) == { evs[i].id : i \in 1..Len(evs) }

\* removal by findIndex/splice: an id that is not found gives index -1 and
\* splice(-1, 1) drops the last event
FilterSplice(evs, id) ==
    IF id \in IdsOf(evs) THEN SelectSeq(evs, LAMBDA e : e.id # id)
    ELSE SubSeq(evs, 1, Len(evs) - 1)

Filter(evs, id) == SelectSeq(evs, LAMBDA e : e.id # id)

Falsy(x) == x = Null

\* generateId() that repeats an id
GenerateIdStale(n) == 1

\* generateId(): a fresh string on every call
GenerateId(n) == n + 1

\* timestamp stands for new Date(t).toISOString(), one string per millisecond;
\* no action of the store reads it
NewEvent(id, t) == [id |-> id, timestamp |-> t, source |-> "manual"]

\* the window closed one millisecond early
ExpiredAtWindow(elapsed) == elapsed >= UNDO_WINDOW_MS

Expired(elapsed) == elapsed > UNDO_WINDOW_MS

\* getEvents() that hands back the stored events although the read failed
GetEventsIgnoresFault(ok) == IF stEvents.present THEN stEvents.val ELSE << >>

\* storage.getEvents(): null item or a failed read give []
GetEvents(ok) == IF ok /\ stEvents.present THEN stEvents.val ELSE << >>

\* storage.getLastSlipTime(): null item or a failed read give null
GetLastSlipTime(ok) == IF ok /\ ~Falsy(stLastSlipTime) THEN stLastSlipTime ELSE Null

\* storage.saveEvents(): rethrows a failed write
SaveEventsThrows(ok) == ~ok

\* a store action that lets the exception of saveEvents through
ActionSettlesRethrows(throws) == IF throws THEN "rejected" ELSE "resolved"

\* the try/catch around the writes of a store action
ActionSettles(throws) == "resolved"

Request(op, owner, val, time) == [op |-> op, owner |-> owner, val |-> val, time |-> time]

\* what `call` records of a store operation: its name, its result, and
\*   hit:   deleteSlip found its id in the collection, undoLastSlip found its
\*          target there, addSlip found another undo target armed;
\*   after: for undoLastSlip, the store operation that ran right before it
Called(op, ret, hit) ==
    [op |-> op, ret |-> ret, hit |-> hit,
     after |-> IF op # "undoLastSlip" THEN "any"
               ELSE IF call.op = "undoLastSlip" /\ call.ret THEN "undone"
               ELSE IF call.op = "addSlip" THEN "addSlip" ELSE "other"]

Settle(owner, status) == IF status = "rejected" THEN rejected \cup {owner} ELSE rejected

\* ------------------------------------------------------ calendar utilities
MS_PER_DAY  == 24 * 60 * 60 * 1000
MS_PER_HOUR == 60 * 60 * 1000
LIMIT_MIN == 1
LIMIT_MAX == 99
DEFAULT_DAILY_LIMIT == 3

\* the safety limit of the walk of useStreak, in days
SAFETY_LIMIT_DAYS == 365

Max(a, b) == IF a >= b THEN a ELSE b

\* A Date, and the ISO string of one, is modelled in the derived views by the
\* calendar day of the instant in UTC, counted from 1970-01-01, and the
\* milliseconds since midnight UTC; a date string "YYYY-MM-DD" by the number
\* of its calendar day: zero-padded date strings sort as these numbers do.
DateAt(day, ms) == [day |-> day + (ms \div MS_PER_DAY), ms |-> ms % MS_PER_DAY]

\* formatDateString(date): getFullYear, getMonth and getDate read the instant
\* on the device's clock, which is tz ms ahead of UTC
FormatDateString(date) == date.day + ((date.ms + tz) \div MS_PER_DAY)

GetTodayDateString == FormatDateString(now)

\* getDateFromTimestamp(iso): new Date(iso) is the instant the event was made
GetDateFromTimestamp(timestamp) == FormatDateString(timestamp)

\* date.setDate(date.getDate() + days) moves the local calendar day and keeps
\* the time of day
SetDate(date, days) == [day |-> date.day + days, ms |-> date.ms]

GetDaysAgoDateString(daysAgo) == FormatDateString(SetDate(now, -daysAgo))

\* getLastNDays(n) that stops at yesterday
GetLastNDaysSkipsToday(n) ==
    [j \in 1..n |-> FormatDateString(SetDate(now, -(n - j + 1)))]

\* getLastNDays(n): i runs from n - 1 down to 0, so the oldest day comes first
GetLastNDays(n) == [j \in 1..n |-> FormatDateString(SetDate(now, -(n - j)))]

\* new Date("YYYY-MM-DD"): a date-only string is read as midnight UTC
NewDate(dateString) == [day |-> dateString, ms |-> 0]

\* checkDate <= endDate
NotAfter(checkDate, endDate) ==
    \/ checkDate.day < endDate.day
    \/ checkDate.day = endDate.day /\ checkDate.ms <= endDate.ms

\* formatDate(date) of useStreak: local getters again
FormatDate(date) == date.day + ((date.ms + tz) \div MS_PER_DAY)

\* ------------------------------------------------------------- useStreak
\* countsByDate: a key for every date that has events
CountsByDate(evs) ==
    LET dates == { GetDateFromTimestamp(evs[i].timestamp) : i \in 1..Len(evs) }
    IN [d \in dates |->
          Cardinality({ i \in 1..Len(evs) : GetDateFromTimestamp(evs[i].timestamp) = d })]

\* countsByDate[date] || 0
SlipsOnDay(countsByDate, date) ==
    IF date \in DOMAIN countsByDate THEN countsByDate[date] ELSE 0

\* a day at the limit breaks the streak
UnderLimitStrict(slipsOnDay, lim) == slipsOnDay < lim

UnderLimit(slipsOnDay, lim) == slipsOnDay <= lim

\* one pass through the while (true) loop of the current streak; stop is set
\* by either break
CurrentStep(countsByDate, lim, s) ==
    IF s.stop THEN s
    ELSE IF UnderLimit(SlipsOnDay(countsByDate, GetDaysAgoDateString(s.daysAgo)), lim)
         THEN [currentStreak |-> s.currentStreak + 1,
               daysAgo       |-> s.daysAgo + 1,
               stop          |-> s.daysAgo + 1 > SAFETY_LIMIT_DAYS]
         ELSE [s EXCEPT !.stop = TRUE]

\* n passes through the loop, the first half of them and then the rest
RECURSIVE CurrentLoop(_, _, _, _)
CurrentLoop(countsByDate, lim, s, n) ==
    IF n = 0 THEN s
    ELSE IF n = 1 THEN CurrentStep(countsByDate, lim, s)
    ELSE LET half == CurrentLoop(countsByDate, lim, s, n \div 2)
         IN IF half.stop THEN half
            ELSE CurrentLoop(countsByDate, lim, half, n - (n \div 2))

\* the loop has met a break after at most SAFETY_LIMIT_DAYS + 1 passes
CurrentStreak(countsByDate, lim) ==
    CurrentLoop(countsByDate, lim,
                [currentStreak |-> 0, daysAgo |-> 0, stop |-> FALSE],
                SAFETY_LIMIT_DAYS + 1).currentStreak

\* one pass through the while (checkDate <= endDate) loop of the best streak
BestStep(countsByDate, lim, endDate, s) ==
    IF ~NotAfter(s.checkDate, endDate) THEN s
    ELSE IF UnderLimit(SlipsOnDay(countsByDate, FormatDate(s.checkDate)), lim)
         THEN [checkDate  |-> SetDate(s.checkDate, 1),
               bestStreak |-> Max(s.bestStreak, s.tempStreak + 1),
               tempStreak |-> s.tempStreak + 1]
         ELSE [checkDate  |-> SetDate(s.checkDate, 1),
               bestStreak |-> s.bestStreak,
               tempStreak |-> 0]

RECURSIVE BestLoop(_, _, _, _, _)
BestLoop(countsByDate, lim, endDate, s, n) ==
    IF n = 0 THEN s
    ELSE IF n = 1 THEN BestStep(countsByDate, lim, endDate, s)
    ELSE LET half == BestLoop(countsByDate, lim, endDate, s, n \div 2)
         IN IF ~NotAfter(half.checkDate, endDate) THEN half
            ELSE BestLoop(countsByDate, lim, endDate, half, n - (n \div 2))

\* checkDate passes endDate after at most endDate.day - checkDate.day + 1 passes
BestStreak(countsByDate, lim, checkDate, endDate) ==
    BestLoop(countsByDate, lim, endDate,
             [checkDate |-> checkDate, bestStreak |-> 0, tempStreak |-> 0],
             Max(endDate.day - checkDate.day + 1, 0)).bestStreak

MinDate(allDates) == CHOOSE d \in allDates : \A e \in allDates : d <= e

UseStreak(evs, lim) ==
    LET countsByDate  == CountsByDate(evs)
        currentStreak == CurrentStreak(countsByDate, lim)
        allDates      == DOMAIN countsByDate
    IN IF allDates = {}
       THEN [done |-> TRUE, current |-> currentStreak, best |-> currentStreak]
       ELSE LET firstDate  == MinDate(allDates)
                today      == GetTodayDateString
                bestStreak == BestStreak(countsByDate, lim, NewDate(firstDate),
                                         NewDate(today))
            IN [done |-> TRUE, current |-> currentStreak,
                best |-> Max(bestStreak, currentStreak)]

NoStreak == [done |-> FALSE, current |-> 0, best |-> 0]

\* -------------------------------------------------------------- useStats
\* null for bestDay and worstDay
NoDay == [date |-> Null, count |-> 0, isOverLimit |-> FALSE]

\* a tie replaces the best day found so far
IsBetterOrSame(day, bestDay) == day.count <= bestDay.count

\* day.count < bestDay.count
IsBetter(day, bestDay) == day.count < bestDay.count

\* day.count > worstDay.count
IsWorse(day, worstDay) == day.count > worstDay.count

\* dailyCounts.forEach(...) for bestDay, from the first entry of dailyCounts on
RECURSIVE FindBestDay(_, _, _)
FindBestDay(dailyCounts, i, bestDay) ==
    IF i > Len(dailyCounts) THEN bestDay
    ELSE FindBestDay(dailyCounts, i + 1,
                     IF bestDay = NoDay \/ IsBetter(dailyCounts[i], bestDay)
                     THEN dailyCounts[i] ELSE bestDay)

\* dailyCounts.forEach(...) for worstDay
RECURSIVE FindWorstDay(_, _, _)
FindWorstDay(dailyCounts, i, worstDay) ==
    IF i > Len(dailyCounts) THEN worstDay
    ELSE FindWorstDay(dailyCounts, i + 1,
                      IF worstDay = NoDay \/ IsWorse(dailyCounts[i], worstDay)
                      THEN dailyCounts[i] ELSE worstDay)

\* new Date(timestamp).getHours(): the local hour, 0..23
GetHourFromTimestamp(timestamp) == ((timestamp.ms + tz) % MS_PER_DAY) \div MS_PER_HOUR

\* the weekday of day 0 of the calendar, 1970-01-01, a Thursday
EPOCH_DOW == 4

\* new Date(timestamp).getDay(): the local weekday, 0 = Sunday .. 6 = Saturday
GetDayOfWeekFromTimestamp(timestamp) ==
    (GetDateFromTimestamp(timestamp) + EPOCH_DOW) % 7

DayNames == << "Sunday", "Monday", "Tuesday", "Wednesday", "Thursday", "Friday",
               "Saturday" >>

\* days[dayOfWeek]
GetDayName(dayOfWeek) == DayNames[dayOfWeek + 1]

\* x || 12
Or12(x) == IF x = 0 THEN 12 ELSE x

\* the parts the returned string is put together from: "9–10 PM" when both
\* periods are the same, "11 AM–12 PM" otherwise
FormatHourRange(hour) ==
    [startHour |-> Or12(hour % 12),
     endHour   |-> Or12((hour + 1) % 12),
     period    |-> IF hour < 12 THEN "AM" ELSE "PM",
     endPeriod |-> IF hour + 1 < 12 \/ hour + 1 = 24 THEN "AM" ELSE "PM"]

\* null for peakHour and for peakDayOfWeek
NoHour    == [startHour |-> Null, endHour |-> Null, period |-> "", endPeriod |-> ""]
NoDayName == ""

MIN_DAYS_FOR_PATTERNS == 3

\* one day fewer is enough
HasEnoughWithTwoDays(uniqueDaysWithEvents) ==
    uniqueDaysWithEvents >= MIN_DAYS_FOR_PATTERNS - 1

\* uniqueDaysWithEvents >= MIN_DAYS_FOR_PATTERNS
HasEnoughDataForPatterns(uniqueDaysWithEvents) ==
    uniqueDaysWithEvents >= MIN_DAYS_FOR_PATTERNS

\* a tie replaces the bucket found so far
IsMoreOrSame(count, maxCount) == count >= maxCount

\* count > maxCount
IsMore(count, maxCount) == count > maxCount

\* Object.entries(counts).forEach(...): the keys are integers, which
\* Object.entries lists in ascending order
RECURSIVE FindPeak(_, _, _)
FindPeak(counts, keys, peak) ==
    IF keys = {} THEN peak
    ELSE LET key == CHOOSE k \in keys : \A o \in keys : k <= o
         IN FindPeak(counts, keys \ {key},
                     IF IsMore(counts[key], peak.maxCount)
                     THEN [maxCount |-> counts[key], maxKey |-> key] ELSE peak)

\* a single event makes a peak
IsPeakOfOne(maxCount) == maxCount >= 1

\* maxHourCount >= 2, maxDowCount >= 2
IsPeak(maxCount) == maxCount >= 2

\* hourCounts as the forEach over the events fills it
HourCounts(evs) ==
    LET keys == { GetHourFromTimestamp(evs[i].timestamp) : i \in 1..Len(evs) }
    IN [k \in keys |->
          Cardinality({ i \in 1..Len(evs) : GetHourFromTimestamp(evs[i].timestamp) = k })]

\* dayOfWeekCounts as the forEach over the events fills it
DayOfWeekCounts(evs) ==
    LET keys == { GetDayOfWeekFromTimestamp(evs[i].timestamp) : i \in 1..Len(evs) }
    IN [k \in keys |->
          Cardinality({ i \in 1..Len(evs) :
                          GetDayOfWeekFromTimestamp(evs[i].timestamp) = k })]

\* the day is over the limit when it reaches it
IsDayUnderStrict(day, dailyLimit) == day.count < dailyLimit

\* d.count <= dailyLimit
IsDayUnder(day, dailyLimit) == day.count <= dailyLimit

\* a / b, kept as a fraction
Ratio(a, b) == [num |-> a, den |-> b]

\* every event counts, in the range or not
TotalSlipsOfAll(evs, eventsInRange) == Len(evs)

\* eventsInRange.length
TotalSlips(evs, eventsInRange) == Len(eventsInRange)

\* displayDate is left out: nothing computed here reads it
UseStats(evs, dailyLimit, range) ==
    LET datesInRange  == GetLastNDays(range)
        dateSet       == { datesInRange[j] : j \in 1..range }
        eventsInRange ==
            SelectSeq(evs, LAMBDA e : GetDateFromTimestamp(e.timestamp) \in dateSet)
        countsByDate  ==
            [d \in dateSet |->
               Cardinality({ i \in 1..Len(eventsInRange) :
                               GetDateFromTimestamp(eventsInRange[i].timestamp) = d })]
        \* datesInRange.slice().reverse().map(...)
        dailyCounts   ==
            [j \in 1..range |->
               LET date == datesInRange[range + 1 - j]
               IN [date |-> date, count |-> countsByDate[date],
                   isOverLimit |-> countsByDate[date] > dailyLimit]]
        totalSlips    == TotalSlips(evs, eventsInRange)
        daysUnderLimit ==
            Cardinality({ j \in 1..range : IsDayUnder(dailyCounts[j], dailyLimit) })
        uniqueDaysWithEvents ==
            Cardinality({ GetDateFromTimestamp(eventsInRange[i].timestamp) :
                            i \in 1..Len(eventsInRange) })
        hasEnoughDataForPatterns == HasEnoughDataForPatterns(uniqueDaysWithEvents)
        detect          == hasEnoughDataForPatterns /\ Len(eventsInRange) >= 3
        hourCounts      == HourCounts(eventsInRange)
        dayOfWeekCounts == DayOfWeekCounts(eventsInRange)
        none            == [maxCount |-> 0, maxKey |-> 0]
        hour            == FindPeak(hourCounts, DOMAIN hourCounts, none)
        dow             == FindPeak(dayOfWeekCounts, DOMAIN dayOfWeekCounts, none)
    IN [done |-> TRUE, range |-> range, dailyCounts |-> dailyCounts,
        totalSlips |-> totalSlips,
        avgPerDay |-> IF range > 0 THEN Ratio(totalSlips, range) ELSE Ratio(0, 1),
        daysUnderLimitPercent |->
            IF range > 0 THEN Ratio(daysUnderLimit * 100, range) ELSE Ratio(0, 1),
        bestDay |-> FindBestDay(dailyCounts, 1, NoDay),
        worstDay |-> FindWorstDay(dailyCounts, 1, NoDay),
        peakHour |->
            IF detect /\ IsPeak(hour.maxCount) THEN FormatHourRange(hour.maxKey)
            ELSE NoHour,
        peakDayOfWeek |->
            IF detect /\ IsPeak(dow.maxCount) THEN GetDayName(dow.maxKey)
            ELSE NoDayName,
        hasEnoughDataForPatterns |-> hasEnoughDataForPatterns,
        hasAnyData |-> Len(evs) > 0]

NoStats == [done |-> FALSE, range |-> 0, dailyCounts |-> << >>, totalSlips |-> 0,
            avgPerDay |-> Ratio(0, 1), daysUnderLimitPercent |-> Ratio(0, 1),
            bestDay |-> NoDay, worstDay |-> NoDay,
            peakHour |-> NoHour, peakDayOfWeek |-> NoDayName,
            hasEnoughDataForPatterns |-> FALSE, hasAnyData |-> FALSE]

\* -------------------------------------------------------------- useToday
\* the day is under the limit only below it
IsUnderLimitStrict(count, lim) == count < lim

\* count <= limit
IsUnderLimit(count, lim) == count <= lim

\* useTodayCount(): the events whose local date is today's
UseTodayCount(evs) ==
    Cardinality({ i \in 1..Len(evs) :
                    GetDateFromTimestamp(evs[i].timestamp) = GetTodayDateString })

UseToday(evs, lim) ==
    LET count == UseTodayCount(evs)
    IN [done |-> TRUE, count |-> count, limit |-> lim,
        isUnderLimit |-> IsUnderLimit(count, lim),
        remaining |-> Max(0, lim - count)]

NoToday == [done |-> FALSE, count |-> 0, limit |-> 0, isUnderLimit |-> FALSE,
            remaining |-> 0]

\* ---------------------------------------------------------- QuickInsight
\* insight === null
NoInsight == [done |-> FALSE, shown |-> FALSE, hour |-> 0, formatted |-> NoHour]

\* the useMemo of QuickInsight, over every event of the collection
QuickInsight(evs) ==
    LET hourCounts == HourCounts(evs)
        peak       == FindPeak(hourCounts, DOMAIN hourCounts,
                               [maxCount |-> 0, maxKey |-> 0])
    IN IF Len(evs) < 3 \/ peak.maxCount < 2
       THEN [NoInsight EXCEPT !.done = TRUE]
       ELSE [done |-> TRUE, shown |-> TRUE, hour |-> peak.maxKey,
             formatted |-> FormatHourRange(peak.maxKey)]

\* -------------------------------------------------------- settings store
\* DEFAULT_SETTINGS, of which dailyLimit is kept
DEFAULT_SETTINGS == DEFAULT_DAILY_LIMIT

\* storage.getSettings(): the saved settings over the defaults, the defaults
\* when nothing is saved or AsyncStorage fails
GetSettings(ok) ==
    IF ok /\ stSettings.present THEN stSettings.dailyLimit ELSE DEFAULT_SETTINGS

\* -------------------------------------------------------------------- Init
\* the stores as created, with nothing persisted
Created ==
    /\ events = << >>
    /\ isLoading = TRUE
    /\ lastSlipId = Null
    /\ lastSlipTime = Null
    /\ stEvents = [present |-> FALSE, val |-> << >>]
    /\ stLastSlipTime = Null
    /\ queue = << >>
    /\ now = 1
    /\ nextId = 0
    /\ call = [op |-> "create", ret |-> FALSE, hit |-> FALSE, after |-> "any"]
    /\ rejected = {}
    /\ lastRec = [id |-> Null, time |-> Null]
    /\ undone = FALSE
    /\ limit = DEFAULT_SETTINGS
    /\ tz = 0
    /\ streak = NoStreak
    /\ stats = NoStats
    /\ todayStatus = NoToday
    /\ insight = NoInsight
    /\ settingsLoading = TRUE
    /\ stSettings = [present |-> FALSE, dailyLimit |-> DEFAULT_SETTINGS]
    /\ settingsQueue = << >>

Init == Created /\ cap = MaxQueue

\* ----------------------------------------------------------- store actions
\* loadEvents, up to `await storage.getEvents()`
LoadEvents ==
    /\ Len(queue) < cap
    /\ isLoading' = TRUE
    /\ queue' = Append(queue, Request("getEvents", "loadEvents", << >>, Null))
    /\ call' = Called("loadEvents", FALSE, FALSE)
    /\ UNCHANGED << outside, events, lastSlipId, lastSlipTime, storage, now, nextId,
                    rejected, lastRec, undone >>

\* addSlip that keeps an undo target that is already armed
AddSlipSetKeepsArmed(newEvent, t) ==
    /\ events' = Append(events, newEvent)
    /\ lastSlipId' = IF Falsy(lastSlipId) THEN newEvent.id ELSE lastSlipId
    /\ lastSlipTime' = IF Falsy(lastSlipId) THEN t ELSE lastSlipTime

\* addSlip whose first set() holds the events only
AddSlipSetEventsOnly(newEvent, t) ==
    /\ events' = Append(events, newEvent)
    /\ UNCHANGED << lastSlipId, lastSlipTime >>

\* the set() of addSlip
AddSlipSet(newEvent, t) ==
    /\ events' = Append(events, newEvent)
    /\ lastSlipId' = newEvent.id
    /\ lastSlipTime' = t

\* addSlip, up to `await storage.saveEvents(updatedEvents)`
AddSlip ==
    /\ nextId < MaxRecords
    /\ Len(queue) < cap
    /\ LET newEvent == NewEvent(GenerateId(nextId), now)
       IN /\ AddSlipSet(newEvent, now)
          /\ queue' = Append(queue, Request("saveEvents", "addSlip",
                                            Append(events, newEvent), now))
          /\ call' = Called("addSlip", FALSE, ~Falsy(lastSlipId))
          /\ lastRec' = [id |-> newEvent.id, time |-> now]
    /\ nextId' = nextId + 1
    /\ undone' = FALSE
    /\ UNCHANGED << outside, isLoading, storage, now, rejected >>

\* deleteSlip(id), up to `await storage.saveEvents(updatedEvents)`
DeleteSlip(id) ==
    /\ Len(queue) < cap
    /\ events' = Filter(events, id)
    /\ queue' = Append(queue, Request("saveEvents", "deleteSlip",
                                      Filter(events, id), Null))
    /\ call' = Called("deleteSlip", FALSE, id \in IdsOf(events))
    /\ UNCHANGED << outside, isLoading, lastSlipId, lastSlipTime, storage, now, nextId,
                    rejected, lastRec, undone >>

\* undoLastSlip that leaves the undo target armed
UndoSetKeepsArmed(updatedEvents) ==
    /\ events' = updatedEvents
    /\ UNCHANGED << lastSlipId, lastSlipTime >>

\* the set() of undoLastSlip
UndoSet(updatedEvents) ==
    /\ events' = updatedEvents
    /\ lastSlipId' = Null
    /\ lastSlipTime' = Null

\* undoLastSlip, up to its early return or `await storage.saveEvents(...)`
UndoLastSlip ==
    IF Falsy(lastSlipId) \/ Falsy(lastSlipTime) \/ Expired(now - lastSlipTime)
    THEN /\ call' = Called("undoLastSlip", FALSE, lastSlipId \in IdsOf(events))
         /\ rejected' = Settle("undoLastSlip", "resolved")
         /\ UNCHANGED << outside, store, storage, queue, now, nextId, lastRec, undone >>
    ELSE /\ Len(queue) < cap
         /\ UndoSet(Filter(events, lastSlipId))
         /\ queue' = Append(queue, Request("saveEvents", "undoLastSlip",
                                           Filter(events, lastSlipId), Null))
         /\ call' = Called("undoLastSlip", TRUE, lastSlipId \in IdsOf(events))
         /\ undone' = TRUE
         /\ UNCHANGED << outside, isLoading, storage, now, nextId, rejected, lastRec >>

\* clearAllEvents, up to `await storage.saveEvents([])`
ClearAllEvents ==
    /\ Len(queue) < cap
    /\ events' = << >>
    /\ lastSlipId' = Null
    /\ lastSlipTime' = Null
    /\ queue' = Append(queue, Request("saveEvents", "clearAllEvents", << >>, Null))
    /\ call' = Called("clearAllEvents", FALSE, FALSE)
    /\ UNCHANGED << outside, isLoading, storage, now, nextId, rejected, lastRec, undone >>

\* ------------------------------------------------- storage requests settle
\* AsyncStorage.getItem of getEvents settles; loadEvents goes on to
\* `await storage.getLastSlipTime()`
GetEventsSettles(ok) ==
    /\ queue # << >>
    /\ Head(queue).op = "getEvents"
    /\ queue' = Append(Tail(queue),
                       Request("getLastSlipTime", "loadEvents", GetEvents(ok), Null))
    /\ UNCHANGED << outside, store, storage, now, nextId, call, rejected, lastRec, undone >>

\* AsyncStorage.getItem of getLastSlipTime settles; loadEvents runs its set().
\* getEvents and getLastSlipTime catch their own faults, so the catch of
\* loadEvents never runs.
GetLastSlipTimeSettles(ok) ==
    /\ queue # << >>
    /\ Head(queue).op = "getLastSlipTime"
    /\ LET loaded == Head(queue).val
       IN /\ events' = loaded
          /\ lastSlipId' = IF Len(loaded) > 0 THEN loaded[Len(loaded)].id ELSE Null
          /\ lastSlipTime' = GetLastSlipTime(ok)
          /\ isLoading' = FALSE
    /\ queue' = Tail(queue)
    /\ call' = Called("loadEventsDone", FALSE, FALSE)
    /\ rejected' = Settle("loadEvents", "resolved")
    /\ UNCHANGED << outside, storage, now, nextId, lastRec, undone >>

\* an AsyncStorage that completes the request issued last before the others
SaveEventsSettlesLast(ok) ==
    /\ queue # << >>
    /\ queue[Len(queue)].op = "saveEvents"
    /\ LET req == queue[Len(queue)]
           others == SubSeq(queue, 1, Len(queue) - 1)
       IN /\ stEvents' = IF ok THEN [present |-> TRUE, val |-> req.val] ELSE stEvents
          /\ IF req.owner = "addSlip" /\ ~SaveEventsThrows(ok)
             THEN /\ queue' = Append(others,
                                     Request("setLastSlipTime", "addSlip", << >>, req.time))
                  /\ UNCHANGED rejected
             ELSE /\ queue' = others
                  /\ rejected' = Settle(req.owner, ActionSettles(SaveEventsThrows(ok)))
    /\ UNCHANGED << outside, store, stLastSlipTime, now, nextId, call, lastRec, undone >>

\* a catch block that puts the persisted events back into the store
SaveEventsSettlesRollsBack(ok) ==
    /\ queue # << >>
    /\ Head(queue).op = "saveEvents"
    /\ LET req == Head(queue)
       IN /\ stEvents' = IF ok THEN [present |-> TRUE, val |-> req.val] ELSE stEvents
          /\ events' = IF ok THEN events ELSE stEvents.val
          /\ IF req.owner = "addSlip" /\ ~SaveEventsThrows(ok)
             THEN /\ queue' = Append(Tail(queue),
                                     Request("setLastSlipTime", "addSlip", << >>, req.time))
                  /\ UNCHANGED rejected
             ELSE /\ queue' = Tail(queue)
                  /\ rejected' = Settle(req.owner, ActionSettles(SaveEventsThrows(ok)))
    /\ UNCHANGED << outside, isLoading, lastSlipId, lastSlipTime, stLastSlipTime, now, nextId,
                    call, lastRec, undone >>

\* AsyncStorage.setItem of saveEvents settles; addSlip goes on to
\* `await storage.setLastSlipTime(now)`, the other actions return
SaveEventsSettles(ok) ==
    /\ queue # << >>
    /\ Head(queue).op = "saveEvents"
    /\ LET req == Head(queue)
       IN /\ stEvents' = IF ok THEN [present |-> TRUE, val |-> req.val] ELSE stEvents
          /\ IF req.owner = "addSlip" /\ ~SaveEventsThrows(ok)
             THEN /\ queue' = Append(Tail(queue),
                                     Request("setLastSlipTime", "addSlip", << >>, req.time))
                  /\ UNCHANGED rejected
             ELSE /\ queue' = Tail(queue)
                  /\ rejected' = Settle(req.owner, ActionSettles(SaveEventsThrows(ok)))
    /\ UNCHANGED << outside, store, stLastSlipTime, now, nextId, call, lastRec, undone >>

\* AsyncStorage.setItem of setLastSlipTime settles; a failure is swallowed
SetLastSlipTimeSettles(ok) ==
    /\ queue # << >>
    /\ Head(queue).op = "setLastSlipTime"
    /\ stLastSlipTime' = IF ok THEN Head(queue).time ELSE stLastSlipTime
    /\ queue' = Tail(queue)
    /\ rejected' = Settle("addSlip", "resolved")
    /\ UNCHANGED << outside, store, stEvents, now, nextId, call, lastRec, undone >>

\* the clock moves on
Tick ==
    /\ \E t \in Instants : t > now /\ now' = t
    /\ UNCHANGED << outside, store, storage, queue, nextId, call, rejected, lastRec, undone >>

Next ==
    \/ LoadEvents
    \/ AddSlip
    \/ \E id \in 1..MaxRecords : DeleteSlip(id)
    \/ UndoLastSlip
    \/ ClearAllEvents
    \/ \E ok \in BOOLEAN : GetEventsSettles(ok)
    \/ \E ok \in BOOLEAN : GetLastSlipTimeSettles(ok)
    \/ \E ok \in BOOLEAN : SaveEventsSettles(ok)
    \/ \E ok \in BOOLEAN : SetLastSlipTimeSettles(ok)
    \/ Tick

Spec == Init /\ [][Next]_vars

\* every AsyncStorage request settles in the end, with a value or an error
Settles ==
    \/ \E ok \in BOOLEAN : GetEventsSettles(ok)
    \/ \E ok \in BOOLEAN : GetLastSlipTimeSettles(ok)
    \/ \E ok \in BOOLEAN : SaveEventsSettles(ok)
    \/ \E ok \in BOOLEAN : SetLastSlipTimeSettles(ok)

\* the store while the clock stands still: loadEvents does not read the clock
NextNoTick ==
    \/ LoadEvents
    \/ AddSlip
    \/ \E id \in 1..MaxRecords : DeleteSlip(id)
    \/ UndoLastSlip
    \/ ClearAllEvents
    \/ Settles

SpecFair == Init /\ [][NextNoTick]_vars /\ WF_vars(Settles)

\* the same store with an AsyncStorage that never fails
NextNoFault ==
    \/ LoadEvents
    \/ AddSlip
    \/ \E id \in 1..MaxRecords : DeleteSlip(id)
    \/ UndoLastSlip
    \/ ClearAllEvents
    \/ GetEventsSettles(TRUE)
    \/ GetLastSlipTimeSettles(TRUE)
    \/ SaveEventsSettles(TRUE)
    \/ SetLastSlipTimeSettles(TRUE)
    \/ Tick

SpecNoFault == Init /\ [][NextNoFault]_vars

\* the mutators alone, with room for one more request in flight and an
\* AsyncStorage that never fails
MutatorInit == Created /\ cap = MaxQueue + 1

MutatorNext ==
    \/ AddSlip
    \/ \E id \in 1..MaxRecords : DeleteSlip(id)
    \/ UndoLastSlip
    \/ ClearAllEvents
    \/ SaveEventsSettles(TRUE)
    \/ SetLastSlipTimeSettles(TRUE)
    \/ Tick

MutatorSpec == MutatorInit /\ [][MutatorNext]_vars

\* ------------------------------------------------------- the derived views
MaxSpan == 3       \* the latest days that may hold events

\* events made on one of these days: none, fewer than DEFAULT_DAILY_LIMIT, as
\* many, and more
Counts == 0..(DEFAULT_DAILY_LIMIT + 1)

\* days before today on which an older burst of events may lie: one inside
\* the walk of useStreak and one outside it
FarDays == {SAFETY_LIMIT_DAYS - 1, SAFETY_LIMIT_DAYS + 1}

\* the calendar day the views are computed on, a Sunday: the days before it
\* are the Saturday and the Friday of the week before
TodayDay == 402

\* a device behind UTC and one ahead of it
Offsets == {-5 * MS_PER_HOUR, 2 * MS_PER_HOUR}
Limits  == {LIMIT_MIN, DEFAULT_DAILY_LIMIT, LIMIT_MAX}
Ranges  == {0, 1, MaxSpan, 7}

\* local hours of the events of one day, in the order they are made: today's
\* begin in an hour that comes before the hours of the days before
Hours(daysAgo) == IF daysAgo = 0 THEN << 0, 0, 12, 23 >> ELSE << 12, 23, 23, 23 >>

\* the instant of the j-th event made daysAgo days before today
EventInstant(daysAgo, j) ==
    DateAt(TodayDay - daysAgo,
           Hours(daysAgo)[((j - 1) % Len(Hours(daysAgo))) + 1] * MS_PER_HOUR - tz)

\* c events made daysAgo days before today, appended to evs by addSlip
EventsOn(evs, daysAgo, c) ==
    evs \o [j \in 1..c |-> NewEvent(GenerateId(Len(evs) + j - 1), EventInstant(daysAgo, j))]

\* the collection with cnt[d] events d days before today, oldest first
RECURSIVE Collection(_, _, _)
Collection(evs, cnt, d) ==
    IF d < 0 THEN evs ELSE Collection(EventsOn(evs, d, cnt[d]), cnt, d - 1)

ViewInit ==
    /\ isLoading = FALSE
    /\ lastSlipId = Null
    /\ lastSlipTime = Null
    /\ stEvents = [present |-> FALSE, val |-> << >>]
    /\ stLastSlipTime = Null
    /\ queue = << >>
    /\ nextId = 0
    /\ call = [op |-> "create", ret |-> FALSE, hit |-> FALSE, after |-> "any"]
    /\ rejected = {}
    /\ lastRec = [id |-> Null, time |-> Null]
    /\ undone = FALSE
    /\ limit \in Limits
    /\ tz \in Offsets
    /\ now = DateAt(TodayDay, 12 * MS_PER_HOUR - tz)
    /\ \E cnt \in [0..(MaxSpan - 1) -> Counts], far \in {Null} \cup FarDays :
          events = Collection(IF far = Null THEN << >> ELSE EventsOn(<< >>, far, DEFAULT_DAILY_LIMIT + 1),
                              cnt, MaxSpan - 1)
    /\ streak = NoStreak
    /\ stats = NoStats
    /\ todayStatus = NoToday
    /\ insight = NoInsight
    /\ settingsLoading = FALSE
    /\ stSettings = [present |-> FALSE, dailyLimit |-> DEFAULT_SETTINGS]
    /\ settingsQueue = << >>
    /\ cap = MaxQueue

\* one evaluation of useStreak()
UseStreakRuns ==
    /\ ~streak.done
    /\ streak' = UseStreak(events, limit)
    /\ UNCHANGED << store, storage, queue, now, nextId, call, rejected, lastRec,
                    undone, limit, tz, stats, home, settings, cap >>

\* one evaluation of useStats(range)
UseStatsRuns(range) ==
    /\ ~stats.done
    /\ stats' = UseStats(events, limit, range)
    /\ UNCHANGED << store, storage, queue, now, nextId, call, rejected, lastRec,
                    undone, limit, tz, streak, home, settings, cap >>

StreakNext == UseStreakRuns

StreakSpec == ViewInit /\ [][StreakNext]_vars

StatsNext == \E range \in Ranges : UseStatsRuns(range)

StatsSpec == ViewInit /\ [][StatsNext]_vars

\* one render of the home screen: TodayStatus evaluates useToday(),
\* StreakCard useStreak() and QuickInsight its useMemo
HomeScreenRenders ==
    /\ ~todayStatus.done
    /\ todayStatus' = UseToday(events, limit)
    /\ streak' = UseStreak(events, limit)
    /\ insight' = QuickInsight(events)
    /\ UNCHANGED << store, storage, queue, now, nextId, call, rejected, lastRec,
                    undone, limit, tz, stats, settings, cap >>

HomeNext == HomeScreenRenders

HomeSpec == ViewInit /\ [][HomeNext]_vars

\* -------------------------------------------------- settings store actions
\* what no action of the settings store touches
slip == << store, storage, queue, now, nextId, call, rejected, lastRec, undone >>

\* loadSettings, up to `await storage.getSettings()`
LoadSettings ==
    /\ Len(settingsQueue) < cap
    /\ settingsLoading' = TRUE
    /\ settingsQueue' = Append(settingsQueue, Request("getSettings", "loadSettings", Null, Null))
    /\ UNCHANGED << slip, limit, tz, streak, stats, home, stSettings, cap >>

\* updateSettings({ dailyLimit }), up to `await storage.saveSettings(updated)`;
\* the other fields of settings and isSetupComplete are left out
UpdateSettings(dailyLimit) ==
    /\ Len(settingsQueue) < cap
    /\ limit' = dailyLimit
    /\ settingsQueue' = Append(settingsQueue,
                               Request("saveSettings", "updateSettings", dailyLimit, Null))
    /\ UNCHANGED << slip, tz, streak, stats, home, settingsLoading, stSettings, cap >>

\* the stepper goes on at the maximum
CanIncrementAtMax(currentLimit) == currentLimit <= LIMIT_MAX

\* currentLimit < LIMIT_MAX
CanIncrement(currentLimit) == currentLimit < LIMIT_MAX

\* currentLimit > LIMIT_MIN
CanDecrement(currentLimit) == currentLimit > LIMIT_MIN

\* LimitSetting.handleIncrement; currentLimit is the limit of the last
\* render, and the screen renders again before the next press
HandleIncrement ==
    /\ CanIncrement(limit)
    /\ UpdateSettings(limit + 1)

\* LimitSetting.handleDecrement
HandleDecrement ==
    /\ CanDecrement(limit)
    /\ UpdateSettings(limit - 1)

\* resetSettings, up to `await storage.saveSettings(DEFAULT_SETTINGS)`
ResetSettings ==
    /\ Len(settingsQueue) < cap
    /\ limit' = DEFAULT_SETTINGS
    /\ settingsQueue' = Append(settingsQueue,
                               Request("saveSettings", "resetSettings", DEFAULT_SETTINGS, Null))
    /\ UNCHANGED << slip, tz, streak, stats, home, settingsLoading, stSettings, cap >>

\* AsyncStorage.getItem of getSettings settles; loadSettings runs its set()
GetSettingsSettles(ok) ==
    /\ settingsQueue # << >>
    /\ Head(settingsQueue).op = "getSettings"
    /\ limit' = GetSettings(ok)
    /\ settingsLoading' = FALSE
    /\ settingsQueue' = Tail(settingsQueue)
    /\ UNCHANGED << slip, tz, streak, stats, home, stSettings, cap >>

\* AsyncStorage.setItem of saveSettings settles; a failure is logged by
\* saveSettings and by the action that awaits it
SaveSettingsSettles(ok) ==
    /\ settingsQueue # << >>
    /\ Head(settingsQueue).op = "saveSettings"
    /\ stSettings' = IF ok THEN [present |-> TRUE, dailyLimit |-> Head(settingsQueue).val]
                     ELSE stSettings
    /\ settingsQueue' = Tail(settingsQueue)
    /\ UNCHANGED << slip, limit, tz, streak, stats, home, settingsLoading, cap >>

SettingsNext ==
    \/ LoadSettings
    \/ HandleIncrement
    \/ HandleDecrement
    \/ ResetSettings
    \/ \E ok \in BOOLEAN : GetSettingsSettles(ok)
    \/ \E ok \in BOOLEAN : SaveSettingsSettles(ok)

SettingsSpec == Init /\ [][SettingsNext]_vars

\* ------------------------------------------------------------------ claims
Removed(evs, evs2) == IdsOf(evs) \ IdsOf(evs2)

Armed == ~Falsy(lastSlipId) /\ ~Falsy(lastSlipTime)

\* C1: at most one undoLastSlip returns true between two consecutive addSlip
\* calls, and none returns true before the first addSlip.
C1_AtMostOneUndoPerRecord ==
    [][ (UndoLastSlip /\ call'.ret) => (lastRec.id # Null /\ ~undone) ]_vars

\* C2: lastSlipId and lastSlipTime are both null or both present.
C2_UndoStateTogether == (lastSlipId = Null) <=> (lastSlipTime = Null)

C4_UndoExpiry ==
    [][ (UndoLastSlip /\ Armed) =>
          /\ call'.ret = FALSE <=> now - lastSlipTime > 300000
          /\ now - lastSlipTime > 300000 => events' = events ]_vars

C4_Witness ==
    /\ call.op = "undoLastSlip"
    /\ ~call.ret
    /\ Armed
    /\ now - lastSlipTime > 300000
    /\ lastSlipId \in IdsOf(events)

\* C5: an event removed by a successful undoLastSlip is the event of the most
\* recent addSlip call, made at most 5 minutes earlier.
C5_UndoRemovesLastRecorded ==
    [][ (UndoLastSlip /\ call'.ret) =>
          \A id \in Removed(events, events') :
              /\ id = lastRec.id
              /\ now - lastRec.time <= UNDO_WINDOW_MS ]_vars

\* C6: an event stays in the collection until deleteSlip with its id, a
\* successful undoLastSlip aimed at it, or clearAllEvents runs.
C6_EventStays ==
    [][ \A id \in Removed(events, events') :
            \/ DeleteSlip(id)
            \/ UndoLastSlip /\ call'.ret /\ lastSlipId = id
            \/ ClearAllEvents ]_vars

\* C7: addSlip appends exactly one new event with source "manual" at the end,
\* keeps the existing events and their order, and sets lastSlipId and
\* lastSlipTime to the new event and its creation time, whatever was armed.
C7_RecordAppends ==
    [][ AddSlip =>
          LET n == Len(events')
          IN /\ n = Len(events) + 1
             /\ SubSeq(events', 1, n - 1) = events
             /\ events'[n].source = "manual"
             /\ events'[n].timestamp = now
             /\ events'[n].id \notin IdsOf(events)
             /\ lastSlipId' = events'[n].id
             /\ lastSlipTime' = now ]_vars

C7_Witness ==
    /\ call.op = "addSlip"
    /\ call.hit
    /\ Len(events) >= 2
    /\ lastSlipId = events[Len(events)].id

\* C8: deleteSlip with an id that is not in the collection leaves the
\* collection, lastSlipId and lastSlipTime unchanged, and deleteSlip never
\* rejects.
C8_RemoveUnknown ==
    /\ []("deleteSlip" \notin rejected)
    /\ [][ \A id \in 1..MaxRecords :
             (DeleteSlip(id) /\ id \notin IdsOf(events)) =>
                 UNCHANGED << events, lastSlipId, lastSlipTime >> ]_vars

C8_Witness ==
    /\ call.op = "deleteSlip"
    /\ ~call.hit
    /\ Len(events) >= 1
    /\ Armed

\* C9: no two events of the collection have the same id.
C9_UniqueIds ==
    \A i, j \in 1..Len(events) : i # j => events[i].id # events[j].id

C9_Witness ==
    /\ Len(events) >= 2
    /\ call.op = "loadEventsDone"

\* C10: no state shows the event of addSlip appended with lastSlipId or
\* lastSlipTime not yet set to it, nor the event of a successful undoLastSlip
\* removed with lastSlipId still set to it.
C10_NoPartialUpdate ==
    /\ (call.op = "addSlip" /\ lastRec.id \in IdsOf(events)) =>
           (lastSlipId = lastRec.id /\ lastSlipTime = lastRec.time)
    /\ (call.op = "undoLastSlip" /\ call.ret) =>
           (lastSlipId = Null /\ lastSlipTime = Null)

C10_Witness ==
    /\ call.op = "undoLastSlip"
    /\ call.ret
    /\ call.hit
    /\ queue # << >>

\* C11: a failed write of saveEvents or setLastSlipTime changes nothing in the
\* store: events, lastSlipId and lastSlipTime keep the values the store
\* actions gave them.
C11_NoRollback ==
    [][ (SaveEventsSettles(FALSE) \/ SetLastSlipTimeSettles(FALSE)) =>
            UNCHANGED << events, lastSlipId, lastSlipTime >> ]_vars

C11_Witness ==
    /\ call.op = "undoLastSlip"
    /\ call.ret
    /\ call.hit
    /\ queue = << >>
    /\ lastRec.id \notin IdsOf(events)
    /\ lastRec.id \in IdsOf(stEvents.val)
    /\ lastSlipId = Null

\* C12 as stated: when the write of a store action fails, the promise of
\* that action rejects.
C12_FailurePropagates ==
    [][ SaveEventsSettles(FALSE) => Head(queue).owner \in rejected' ]_vars

\* C12, amended: saveEvents rethrows a failed write to the store action,
\* which stops there (addSlip does not go on to setLastSlipTime); the promise
\* of a store action never rejects.
C12_FailureLogged ==
    /\ [](rejected = {})
    /\ [][ SaveEventsSettles(FALSE) =>
             (SaveEventsThrows(FALSE) /\ queue' = Tail(queue)) ]_vars

C12_Witness ==
    /\ call.op = "addSlip"
    /\ queue = << >>
    /\ lastRec.id \in IdsOf(events)
    /\ lastRec.id \notin IdsOf(stEvents.val)
    /\ stLastSlipTime # lastRec.time
    /\ rejected = {}

\* a loadEvents call is waiting for AsyncStorage
Loading == \E i \in 1..Len(queue) : queue[i].owner = "loadEvents"

\* C13: loadEvents never rejects; a getEvents whose item is missing or whose
\* read fails returns []; a loadEvents that got [] ends with an empty
\* collection and isLoading = false; and every loadEvents call ends.
C13_LoadNeverRaises ==
    /\ []("loadEvents" \notin rejected)
    /\ Loading ~> (call.op = "loadEventsDone" /\ ~isLoading)
    /\ [][ \A ok \in BOOLEAN :
             (GetEventsSettles(ok) /\ (~ok \/ ~stEvents.present)) =>
                 queue'[Len(queue')].val = << >> ]_vars
    /\ [][ \A ok \in BOOLEAN :
             GetLastSlipTimeSettles(ok) =>
                 /\ isLoading' = FALSE
                 /\ Head(queue).val = << >> => events' = << >> ]_vars

C13_Witness ==
    /\ call.op = "loadEventsDone"
    /\ events = << >>
    /\ ~isLoading
    /\ stEvents.present
    /\ stEvents.val # << >>

\* ---------------------------------------------------- claims on the views
\* the local calendar day of an instant
LocalDay(date) == date.day + ((date.ms + tz) \div MS_PER_DAY)

\* how many days before today event i was made
DaysAgo(i) == LocalDay(now) - LocalDay(events[i].timestamp)

\* the number of events made d days before today
EventsAgo(d) == Cardinality({ i \in 1..Len(events) : DaysAgo(i) = d })

EventDaysAgo == { DaysAgo(i) : i \in 1..Len(events) }

\* the days, counted back from today, whose events exceed the limit
OverDays == { d \in EventDaysAgo : EventsAgo(d) > limit }

SetMax(S) == CHOOSE x \in S : \A y \in S : y <= x

\* the longest run of days within the limit, from the day of the earliest
\* event to today
LongestRun ==
    LET walls == OverDays \cup {-1, SetMax(EventDaysAgo) + 1}
    IN SetMax({ w2 - w1 - 1 : << w1, w2 >> \in
                  { p \in walls \X walls :
                      /\ p[1] < p[2]
                      /\ \A w \in walls : ~(p[1] < w /\ w < p[2]) } })

\* C14: the current streak never exceeds 365, and is exactly 365 when none of
\* the 365 days of the walk is over the limit.
C14_CurrentCapped ==
    streak.done =>
        /\ streak.current <= 365
        /\ (OverDays \cap 0..364 = {}) => streak.current = 365

\* C15: with limit 3 and events on exactly the last three days, 2 the day
\* before yesterday, 3 yesterday and 1 today, the current streak is 3.
C15_HeaderExample ==
    ( /\ streak.done
      /\ limit = 3
      /\ EventDaysAgo = {0, 1, 2}
      /\ EventsAgo(2) = 2
      /\ EventsAgo(1) = 3
      /\ EventsAgo(0) = 1 ) => streak.current = 3

\* C16: when the nearest day over the limit lies k days before today, with
\* 0 <= k <= 364, the current streak is k: days at the limit and days without
\* events in between extend it.
C16_FirstOverDay ==
    streak.done =>
        LET over == OverDays
        IN \A k \in over \cap 0..364 :
               (\A j \in over : k <= j) => streak.current = k

C16_Witness ==
    /\ streak.done
    /\ limit = 3
    /\ EventsAgo(0) = 3
    /\ EventsAgo(1) = 4
    /\ streak.current = 1

\* C17: for a collection that is not empty, best is the larger of the current
\* streak and the longest run of days within the limit between the day of the
\* earliest event and today, and best is never below current.
C17_BestIsLongestRun ==
    (streak.done /\ events # << >>) =>
        /\ streak.best = Max(LongestRun, streak.current)
        /\ streak.best >= streak.current

\* C18: for an empty collection best equals current, and both are the cap of
\* 365 days.
C18_EmptyCollection ==
    (streak.done /\ events = << >>) =>
        /\ streak.best = streak.current
        /\ streak.current = 365

\* the days of the range of stats, counted back from today
RangeDays == 0..(stats.range - 1)

\* the number of events on each day of the range
RangeCounts == [d \in RangeDays |-> EventsAgo(d)]

\* the days of the range with the fewest and with the most events
FewestDays ==
    LET c == RangeCounts IN { d \in RangeDays : \A e \in RangeDays : c[d] <= c[e] }

MostDays ==
    LET c == RangeCounts IN { d \in RangeDays : \A e \in RangeDays : c[d] >= c[e] }

\* C19 as stated: for a range of at least one day, bestDay is a day of the
\* range with the fewest events and worstDay one with the most, and among
\* several such days it is the earliest.
C19_TiesEarliest ==
    (stats.done /\ stats.range >= 1) =>
        LET earliestBest  == SetMax(FewestDays)
            earliestWorst == SetMax(MostDays)
        IN /\ stats.bestDay.date = LocalDay(now) - earliestBest
           /\ stats.bestDay.count = EventsAgo(earliestBest)
           /\ stats.worstDay.date = LocalDay(now) - earliestWorst
           /\ stats.worstDay.count = EventsAgo(earliestWorst)

\* C19, amended: bestDay is a day of the range with the fewest events and
\* worstDay one with the most, and among several such days it is the latest.
C19_TiesLatest ==
    (stats.done /\ stats.range >= 1) =>
        LET fewest == FewestDays
            most   == MostDays
        IN /\ \E d \in fewest :
                 /\ \A e \in fewest : d <= e
                 /\ stats.bestDay.date = LocalDay(now) - d
                 /\ stats.bestDay.count = EventsAgo(d)
           /\ \E d \in most :
                 /\ \A e \in most : d <= e
                 /\ stats.worstDay.date = LocalDay(now) - d
                 /\ stats.worstDay.count = EventsAgo(d)

C19_Witness ==
    /\ stats.done
    /\ stats.range = MaxSpan
    /\ EventsAgo(0) = EventsAgo(2)
    /\ EventsAgo(1) > EventsAgo(0)
    /\ stats.bestDay.date = LocalDay(now)
    /\ stats.worstDay.date = LocalDay(now) - 1

\* C20: dailyCounts has one entry for each of the last range local days, today
\* first and each next entry one day earlier, and the count of an entry is the
\* number of events made on that local day, 0 if there are none.
C20_DailyCounts ==
    stats.done =>
        /\ Len(stats.dailyCounts) = stats.range
        /\ \A j \in 1..Len(stats.dailyCounts) :
              /\ stats.dailyCounts[j].date = LocalDay(now) - (j - 1)
              /\ stats.dailyCounts[j].count = EventsAgo(j - 1)
        /\ \A j \in 1..(Len(stats.dailyCounts) - 1) :
              stats.dailyCounts[j].date > stats.dailyCounts[j + 1].date

C20_Witness ==
    /\ stats.done
    /\ stats.range = 7
    /\ Len(stats.dailyCounts) = 7
    /\ stats.dailyCounts[1].count > 1
    /\ stats.dailyCounts[2].count = 0
    /\ stats.dailyCounts[3].count > 0
    /\ \E d \in EventDaysAgo : d >= 7

\* C25: whenever undoLastSlip returns true the collection has exactly one
\* event fewer after the call than before it, also when the armed event was
\* deleted with deleteSlip(id) before the undo.
C25_UndoRemovesOne ==
    [][ (UndoLastSlip /\ call'.ret) => Len(events') = Len(events) - 1 ]_vars

\* C24: in every state the settings store reaches from its defaults by
\* loadSettings, resetSettings and the increment and decrement of the limit
\* stepper, with a storage only the app writes, dailyLimit is an integer
\* with LIMIT_MIN <= dailyLimit <= LIMIT_MAX.
C24_LimitInRange == limit \in LIMIT_MIN..LIMIT_MAX

\* the stepper has reached the maximum, which was saved and loaded again
C24_Witness ==
    /\ limit = LIMIT_MAX
    /\ ~settingsLoading
    /\ stSettings = [present |-> TRUE, dailyLimit |-> LIMIT_MAX]
    /\ settingsQueue = << >>

\* what storage.getEvents() would read
Persisted == IF stEvents.present THEN stEvents.val ELSE << >>

\* the saveEvents requests in flight
PendingWrites == { i \in 1..Len(queue) : queue[i].op = "saveEvents" }

\* C29: under any interleaving of addSlip, deleteSlip, undoLastSlip and
\* clearAllEvents whose writes all succeed, the persisted event list equals
\* the in-memory collection once every pending write has completed; while
\* writes are pending, the one issued last carries the in-memory collection.
C29_PersistedEqualsMemory ==
    /\ queue = << >> => Persisted = events
    /\ PendingWrites # {} =>
          queue[CHOOSE i \in PendingWrites : \A j \in PendingWrites : j <= i].val = events

\* two writes of different lists are in flight at once, and neither the
\* first of them nor the persisted list is the in-memory collection
C29_Witness ==
    /\ Len(queue) >= 2
    /\ queue[1].op = "saveEvents"
    /\ queue[2].op = "saveEvents"
    /\ queue[1].val # queue[2].val
    /\ queue[1].val # events
    /\ Persisted # events
    /\ stEvents.present

\* the local hour of events[i]
LocalHour(i) == ((events[i].timestamp.ms + tz) % MS_PER_DAY) \div MS_PER_HOUR

\* the events of the whole collection in each local hour
AllHourEvents == [h \in 0..23 |-> Cardinality({ i \in 1..Len(events) : LocalHour(i) = h })]

\* C28: the home screen reports a most common slip hour only when at least
\* 2 events lie in the reported hour and the events lie on at least 3
\* distinct calendar days.
C28_InsightIsPattern ==
    (insight.done /\ insight.shown) =>
        /\ AllHourEvents[insight.hour] >= 2
        /\ insight.formatted = FormatHourRange(insight.hour)
        /\ Cardinality({ DaysAgo(i) : i \in 1..Len(events) }) >= 3

InRange == { i \in 1..Len(events) : DaysAgo(i) \in RangeDays }

\* the local weekday of events[i], 0 = Sunday: today is a Sunday
Weekday(i) == (7 - (DaysAgo(i) % 7)) % 7

\* how many of the events S lie in hour h, and on weekday w
HourEvents(S, h)    == Cardinality({ i \in S : LocalHour(i) = h })
WeekdayEvents(S, w) == Cardinality({ i \in S : Weekday(i) = w })

\* the distinct local calendar days that hold an event of the range
DaysWithEvents == { DaysAgo(i) : i \in InRange }

SetMin(S) == CHOOSE x \in S : \A y \in S : x <= y

\* C21: peakHour and peakDayOfWeek are both null whenever the events inside
\* the range lie on fewer than 3 distinct local calendar dates.
C21_ThreeDayGate ==
    (stats.done /\ Cardinality(DaysWithEvents) < 3)
        => (stats.peakHour = NoHour /\ stats.peakDayOfWeek = NoDayName)

\* three or more events on two days with two of them in one hour: only the
\* number of days keeps the peak hour back
C21_Witness ==
    /\ stats.done
    /\ Cardinality(DaysWithEvents) = 2
    /\ Cardinality(InRange) >= 3
    /\ \E h \in 0..23 : HourEvents(InRange, h) >= 2
    /\ stats.peakHour = NoHour
    /\ stats.peakDayOfWeek = NoDayName

\* C22: a peak hour is reported only if at least 2 events of the range lie in
\* the reported hour and no hour holds more; a peak weekday is reported only
\* if at least 2 events of the range lie on the reported weekday and no
\* weekday holds more.
C22_PeakIsMaxOfTwo ==
    stats.done =>
        LET inRange == InRange
        IN /\ stats.peakHour # NoHour =>
                \E h \in 0..23 :
                    /\ stats.peakHour = FormatHourRange(h)
                    /\ LET most == HourEvents(inRange, h)
                       IN /\ most >= 2
                          /\ \A g \in 0..23 : HourEvents(inRange, g) <= most
           /\ stats.peakDayOfWeek # NoDayName =>
                \E w \in 0..6 :
                    /\ stats.peakDayOfWeek = GetDayName(w)
                    /\ LET most == WeekdayEvents(inRange, w)
                       IN /\ most >= 2
                          /\ \A v \in 0..6 : WeekdayEvents(inRange, v) <= most

\* events on three days: a peak hour is reported, and no peak weekday since
\* no weekday holds two events
C22_Witness ==
    /\ stats.done
    /\ stats.peakHour # NoHour
    /\ stats.peakDayOfWeek = NoDayName
    /\ Cardinality(DaysWithEvents) >= 3

\* C23: for range = 0 the computation does not fail and gives totalSlips = 0,
\* avgPerDay = 0, daysUnderLimitPercent = 0, an empty dailyCounts and null
\* for bestDay, worstDay, peakHour and peakDayOfWeek, whatever the collection.
C23_EmptyRange ==
    (stats.done /\ stats.range = 0) =>
        /\ stats.totalSlips = 0
        /\ stats.avgPerDay.num = 0
        /\ stats.daysUnderLimitPercent.num = 0
        /\ stats.dailyCounts = << >>
        /\ stats.bestDay = NoDay
        /\ stats.worstDay = NoDay
        /\ stats.peakHour = NoHour
        /\ stats.peakDayOfWeek = NoDayName

\* range 0 over a collection that has events on three days
C23_Witness ==
    /\ stats.done
    /\ stats.range = 0
    /\ \A d \in 0..2 : EventsAgo(d) >= 2

\* the hours, and the weekdays, that hold the most of the events S; an hour
\* or weekday without an event holds fewer than one with an event
TopHours(S) ==
    LET keys == { LocalHour(i) : i \in S }
    IN { h \in keys : \A g \in keys : HourEvents(S, g) <= HourEvents(S, h) }
TopWeekdays(S) ==
    LET keys == { Weekday(i) : i \in S }
    IN { w \in keys : \A v \in keys : WeekdayEvents(S, v) <= WeekdayEvents(S, w) }

\* C26: when two hours tie for the most events the reported peakHour is the
\* one with the lowest key of 0..23, and when two weekdays tie the reported
\* peakDayOfWeek is the one with the lowest key of 0..6, 0 being Sunday.
C26_TiesLowestKey ==
    stats.done =>
        LET inRange == InRange
        IN /\ stats.peakHour # NoHour =>
                 stats.peakHour = FormatHourRange(SetMin(TopHours(inRange)))
           /\ stats.peakDayOfWeek # NoDayName =>
                 stats.peakDayOfWeek = GetDayName(SetMin(TopWeekdays(inRange)))

\* both peaks are reported out of a tie in which the oldest event of the
\* range lies in a bucket with a higher key than the reported one
C26_Witness ==
    /\ stats.done
    /\ stats.peakHour # NoHour
    /\ stats.peakDayOfWeek # NoDayName
    /\ LET first == SetMin(InRange)
           hours == TopHours(InRange)
           dows  == TopWeekdays(InRange)
       IN /\ Cardinality(hours) >= 2
          /\ Cardinality(dows) >= 2
          /\ LocalHour(first) \in hours
          /\ LocalHour(first) > SetMin(hours)
          /\ Weekday(first) \in dows
          /\ Weekday(first) > SetMin(dows)

====
